---- MODULE Spec2Model ----
(***************************************************************************)
(* matrix-sed: a Matrix bot that applies sed-style substitutions.          *)
(*                                                                         *)
(* The module models crates/matrix-sed/src/main.rs (session lifecycle,     *)
(* catch-up sync, device cleanup, steady-state sync loop) and              *)
(* crates/matrix-sed/src/handlers.rs (autojoin with backoff, command       *)
(* handler) as state machines.                                             *)
(*                                                                         *)
(* The homeserver is modelled as an append-only event log; a sync token is *)
(* a position in that log, and a sync round with token t returns the       *)
(* events after position t together with next_batch = the log's length.    *)
(***************************************************************************)
EXTENDS Integers, Sequences, FiniteSets, TLC

VARIABLES
    pc,             \* position of the bot process in main()/login()/run()
    err,            \* why the process ended ("" while it runs)
    config,         \* AccountConfig: password given?, delete_other_devices
    file,           \* the session file: [exists, text]
    client,         \* the in-memory Client built by login()/restore_session()
    initial_sync_token, \* the Option<String> main() hands to run()
    sync_token,     \* sync_settings.token, an Option
    handlers,       \* event handlers registered on the client
    serverLog,      \* the homeserver's event log
    serverDevices,  \* the devices of the bot's account on the homeserver
    inflight,       \* events of the current sync response not yet dispatched
    next_batch,     \* next_batch of the current sync response
    delivered,      \* per event: how often on_room_message was called with it
    tasks,          \* the detached join tasks, one per invite to the bot
    hist,           \* history of the run: rounds, login attempts, persists
    call            \* one call of on_room_message: its inputs and its outcome

vars == << pc, err, config, file, client, initial_sync_token, sync_token,
           handlers, serverLog, serverDevices, inflight, next_batch,
           delivered, tasks, hist, call >>

----------------------------------------------------------------------------
(* Bounds of the model.                                                    *)

\* longest homeserver event log
MaxEvents == 2
\* most password prompts answered in one login() call
MaxLoginAttempts == 2
\* most invites to the bot in the event log
MaxInvites == 1

----------------------------------------------------------------------------
(* Program constants.                                                      *)

\* `let mut delay = 2`
InitialDelay == 2
\* `if delay > 3600`
MaxDelay == 3600
\* `uint!(2)`: the context window asked of event_with_context
ContextSize == 2

----------------------------------------------------------------------------
(* Values.                                                                 *)

None == << >>
Some(v) == << v >>
IsSome(o) == o # << >>
Unwrap(o) == o[1]

BotUser == "@bot:hs"
OtherUser == "@alice:hs"
Homeserver == "https://hs"
BotDevice == "BOTDEVICE"
OldDevice == "OLDDEVICE"

\* the random passphrase and database sub-folder login() may draw
Passphrases == {"passA", "passB"}
DbPaths == {"data/dbA"}

\* the MatrixSession the homeserver returns for a login
ServerSession == [user_id |-> BotUser, device_id |-> BotDevice, access_token |-> "syt_1"]

NoClient ==
    [built |-> FALSE, homeserver |-> "", db_path |-> "", passphrase |-> "",
     session |-> None]

\* kinds of events the homeserver delivers in a sync response
MessageEvent == [type |-> "m.room.message", state_key |-> ""]
InviteEvent(user) == [type |-> "invite", state_key |-> user]
ServerEvents == {MessageEvent, InviteEvent(BotUser), InviteEvent(OtherUser)}

----------------------------------------------------------------------------
(* FullSession and its JSON form.  The serialised text is modelled as the  *)
(* JSON object's key/value map: `sync_token` is left out when it is None   *)
(* (skip_serializing_if), and a text that lacks a required key does not    *)
(* parse.                                                                  *)

FullSession(cs, us, tok) ==
    [client_session |-> cs, user_session |-> us, sync_token |-> tok]

ClientSession(hs, path, pass) ==
    [homeserver |-> hs, db_path |-> path, passphrase |-> pass]

\* a file cut short by a crash in the middle of fs::write
TruncatedText == [truncated |-> TRUE]

\* a serialiser that never writes sync_token
to_string_skip(full_session) ==
    [client_session |-> full_session.client_session,
     user_session |-> full_session.user_session]

to_string(full_session) ==
    IF IsSome(full_session.sync_token)
    THEN [client_session |-> full_session.client_session,
          user_session |-> full_session.user_session,
          sync_token |-> Unwrap(full_session.sync_token)]
    ELSE [client_session |-> full_session.client_session,
          user_session |-> full_session.user_session]

from_str(text) ==
    IF {"client_session", "user_session"} \subseteq DOMAIN text
    THEN [ok |-> TRUE,
          value |-> FullSession(text.client_session, text.user_session,
                                IF "sync_token" \in DOMAIN text
                                THEN Some(text.sync_token) ELSE None)]
    ELSE [ok |-> FALSE,
          value |-> FullSession(ClientSession("", "", ""), ServerSession, None)]

AbsentFile == [exists |-> FALSE, text |-> TruncatedText]
WrittenFile(text) == [exists |-> TRUE, text |-> text]

\* a persist that keeps a token the record already holds
persist_sync_token_keep(session_file, token) ==
    IF ~session_file.exists \/ ~from_str(session_file.text).ok
    THEN [ok |-> FALSE, file |-> session_file]
    ELSE LET full_session == from_str(session_file.text).value
             updated == [full_session EXCEPT
                           !.sync_token = IF IsSome(@) THEN @ ELSE Some(token)]
         IN  [ok |-> TRUE, file |-> WrittenFile(to_string(updated))]

\* persist_sync_token: read, parse, set sync_token, serialise, write.
\* The result is [ok, file]; a failed read or parse leaves the file alone.
persist_sync_token(session_file, token) ==
    IF ~session_file.exists \/ ~from_str(session_file.text).ok
    THEN [ok |-> FALSE, file |-> session_file]
    ELSE LET full_session == from_str(session_file.text).value
             updated == [full_session EXCEPT !.sync_token = Some(token)]
         IN  [ok |-> TRUE, file |-> WrittenFile(to_string(updated))]

\* the sync cursor a parseable session file holds
FileCursor ==
    IF file.exists /\ from_str(file.text).ok
    THEN from_str(file.text).value.sync_token
    ELSE None

----------------------------------------------------------------------------
(* History variables (not program state).                                  *)

NoHist ==
    [ path |-> "none",         \* restore or login, this process lifetime
      loginAttempts |-> 0,     \* login_username calls of this login()
      rejected |-> FALSE,      \* the homeserver rejected one of them
      loginWritten |-> None,   \* the FullSession login() wrote
      lastPersist |-> None,    \* token of the last completed persist call
      lastCompleted |-> None,  \* next_batch of the last completed round
      round |-> "none",        \* result of the latest sync request
      deleteRequest |-> None,  \* the devices of the last delete_devices call
      steadySince |-> None,    \* server position when the bot first was steady
      steadyUpTo |-> 0 ]       \* last position a steady-state round returned

\* no call of on_room_message is followed
NoCall == [phase |-> "none"]

----------------------------------------------------------------------------
Init ==
    /\ pc = "main"
    /\ err = ""
    /\ config \in [password : BOOLEAN, delete_other_devices : BOOLEAN]
    /\ file = AbsentFile
    /\ client = NoClient
    /\ initial_sync_token = None
    /\ sync_token = None
    /\ handlers = {}
    /\ serverLog = << >>
    /\ serverDevices = {OldDevice}
    /\ inflight = << >>
    /\ next_batch = 0
    /\ delivered = << >>
    /\ tasks = << >>
    /\ hist = NoHist
    /\ call = NoCall

Running == pc \notin {"returned_err", "panicked", "crashed"}

\* the process ends: main() returns the error, or panics
Exit(how, why) ==
    /\ pc' = how
    /\ err' = why
    /\ client' = NoClient
    /\ handlers' = {}
    /\ inflight' = << >>
    /\ sync_token' = None
    /\ initial_sync_token' = None
    /\ tasks' = << >>
    /\ next_batch' = 0

----------------------------------------------------------------------------
(* main(): restore when the session file exists, login otherwise.          *)

\* restore_session(): read and parse the file, build the client from the
\* recorded settings, restore the user session.  Nothing is written.
restore_session ==
    /\ UNCHANGED call
    /\ pc = "main"
    /\ file.exists
    /\ LET parsed == from_str(file.text)
           full_session == parsed.value
       IN  IF ~parsed.ok
           THEN /\ Exit("returned_err", "SessionCorrupt")
                /\ hist' = [hist EXCEPT !.path = "restore"]
           ELSE \E build_ok \in BOOLEAN, restore_ok \in BOOLEAN :
                  IF ~build_ok
                  THEN /\ Exit("returned_err", "ClientBuild")
                       /\ hist' = [hist EXCEPT !.path = "restore"]
                  ELSE IF ~restore_ok
                  THEN /\ Exit("returned_err", "AuthExpired")
                       /\ hist' = [hist EXCEPT !.path = "restore"]
                  ELSE /\ pc' = "run"
                       /\ client' =
                            [built |-> TRUE,
                             homeserver |-> full_session.client_session.homeserver,
                             db_path |-> full_session.client_session.db_path,
                             passphrase |-> full_session.client_session.passphrase,
                             session |-> Some(full_session.user_session)]
                       /\ initial_sync_token' = full_session.sync_token
                       /\ hist' = [hist EXCEPT !.path = "restore"]
                       /\ UNCHANGED << err, handlers, inflight, sync_token, tasks, next_batch >>
    /\ UNCHANGED << config, file, serverLog, serverDevices,
                    delivered >>

\* login(), up to the loop: draw the passphrase and the database folder and
\* build the client.
login_begin ==
    /\ UNCHANGED call
    /\ pc = "main"
    /\ ~file.exists
    /\ \E passphrase \in Passphrases, db_path \in DbPaths, build_ok \in BOOLEAN :
         IF ~build_ok
         THEN /\ Exit("returned_err", "ClientBuild")
              /\ hist' = [hist EXCEPT !.path = "login", !.loginAttempts = 0,
                                      !.rejected = FALSE]
         ELSE /\ pc' = "login_loop"
              /\ client' = [built |-> TRUE, homeserver |-> Homeserver,
                            db_path |-> db_path, passphrase |-> passphrase,
                            session |-> None]
              /\ hist' = [hist EXCEPT !.path = "login", !.loginAttempts = 0,
                                      !.rejected = FALSE]
              /\ UNCHANGED << err, handlers, inflight, sync_token,
                              initial_sync_token, tasks, next_batch >>
    /\ UNCHANGED << config, file, serverLog, serverDevices,
                    delivered >>

\* a login() that persists an empty token instead of none
login_persist_token(c, session) ==
    IF ~IsSome(session)
    THEN [panic |-> TRUE, file |-> file]
    ELSE [panic |-> FALSE,
          file |-> WrittenFile(to_string(
                     FullSession(ClientSession(c.homeserver, c.db_path, c.passphrase),
                                 Unwrap(session), Some(0))))]

\* what login() does once the loop has ended: take the client's session
\* (expect) and write the session file with no sync token.
login_persist(c, session) ==
    IF ~IsSome(session)
    THEN [panic |-> TRUE, file |-> file]
    ELSE [panic |-> FALSE,
          file |-> WrittenFile(to_string(
                     FullSession(ClientSession(c.homeserver, c.db_path, c.passphrase),
                                 Unwrap(session), None)))]

\* does a rejected login end the loop?  (it does when a password was configured)
login_breaks_on_error(cfg) == cfg.password

\* one pass of the login loop whose login_username call is answered
login_attempt ==
    /\ UNCHANGED call
    /\ pc = "login_loop"
    /\ hist.loginAttempts < MaxLoginAttempts
    /\ \E accepted \in BOOLEAN :
         LET session == IF accepted THEN Some(ServerSession) ELSE None
             after == login_persist(client, session)
             tried == [hist EXCEPT !.loginAttempts = @ + 1,
                                   !.rejected = @ \/ ~accepted]
         IN  IF accepted \/ login_breaks_on_error(config)
             THEN IF after.panic
                  THEN /\ Exit("panicked", "A logged-in client should have a session")
                       /\ hist' = tried
                       /\ UNCHANGED << file, serverDevices >>
                  ELSE /\ pc' = "run"
                       /\ client' = [client EXCEPT !.session = session]
                       /\ file' = after.file
                       /\ initial_sync_token' = None
                       /\ serverDevices' = serverDevices \cup {BotDevice}
                       /\ hist' = [tried EXCEPT
                                     !.loginWritten = Some(from_str(after.file.text).value),
                                     !.lastPersist = None]
                       /\ UNCHANGED << err, handlers, inflight, sync_token, tasks, next_batch >>
             ELSE /\ hist' = tried
                  /\ UNCHANGED << pc, err, client, file, initial_sync_token,
                                  serverDevices, handlers, inflight, sync_token,
                                  tasks, next_batch >>
    /\ UNCHANGED << config, serverLog, delivered >>

\* no password configured and the prompt cannot be read: login() panics
login_prompt_fails ==
    /\ UNCHANGED call
    /\ pc = "login_loop"
    /\ ~config.password
    /\ Exit("panicked", "FATAL: failed to get password")
    /\ UNCHANGED << config, file, serverLog, serverDevices,
                    delivered, hist >>

----------------------------------------------------------------------------
(* The homeserver.                                                         *)

TokenPosition(token) == IF IsSome(token) THEN Unwrap(token) ELSE 0

\* the events a sync request with this token returns, oldest first
SyncEvents(token) ==
    [k \in 1 .. (Len(serverLog) - TokenPosition(token)) |-> TokenPosition(token) + k]

BotInvites == {i \in DOMAIN serverLog : serverLog[i] = InviteEvent(BotUser)}

\* the homeserver receives an event of a room the bot is in, or an invite
server_event ==
    /\ UNCHANGED call
    /\ Len(serverLog) < MaxEvents
    /\ \E e \in ServerEvents :
         /\ e = InviteEvent(BotUser) => Cardinality(BotInvites) < MaxInvites
         /\ serverLog' = Append(serverLog, e)
         /\ delivered' = Append(delivered, 0)
    /\ UNCHANGED << pc, err, config, file, client, initial_sync_token,
                    sync_token, handlers, serverDevices, inflight, next_batch,
                    tasks, hist >>

----------------------------------------------------------------------------
(* run(): bootstrap and catch-up.                                          *)

\* both handlers registered before the first sync
initial_handlers_both == {"on_stripped_state_member", "on_room_message"}

\* the handlers run() registers before the first sync
\* no handler registered before the first sync
initial_handlers_none == {}

initial_handlers == {"on_stripped_state_member"}

\* register the autojoin handler and put the restored token in sync_settings
run_bootstrap ==
    /\ UNCHANGED call
    /\ pc = "run"
    /\ pc' = "catchup"
    /\ handlers' = initial_handlers
    /\ sync_token' = initial_sync_token
    /\ UNCHANGED << err, config, file, client, initial_sync_token, serverLog,
                    serverDevices, inflight, next_batch, delivered, tasks, hist >>

\* a sync request is answered: the client will run the handlers on its events
sync_ok ==
    /\ UNCHANGED call
    /\ pc \in {"catchup", "steady"}
    /\ pc' = IF pc = "catchup" THEN "catchup_handlers" ELSE "steady_handlers"
    /\ inflight' = SyncEvents(sync_token)
    /\ next_batch' = Len(serverLog)
    /\ hist' = [hist EXCEPT !.round = "ok",
                            !.steadyUpTo = IF pc = "steady" THEN Len(serverLog) ELSE @]
    /\ UNCHANGED << err, config, file, client, initial_sync_token, sync_token,
                    handlers, serverLog, serverDevices, delivered, tasks >>

\* the initial sync fails: warn and send the same request again
catchup_sync_err ==
    /\ UNCHANGED call
    /\ pc = "catchup"
    /\ hist' = [hist EXCEPT !.round = "err"]
    /\ UNCHANGED << pc, err, config, file, client, initial_sync_token,
                    sync_token, handlers, serverLog, serverDevices, inflight,
                    next_batch, delivered, tasks >>

\* a join task as tokio::spawn creates it
NewTask(i) ==
    [event |-> i, state |-> "join", delay |-> InitialDelay, waits |-> << >>,
     attempts |-> 0, joined |-> FALSE, logged |-> {}]

\* a handler that spawns a join task for every invite
on_stripped_state_member_any(i, ts) == Append(ts, NewTask(i))

\* on_stripped_state_member: spawn a join task when the invite is for the bot
on_stripped_state_member(i, ts) ==
    IF serverLog[i].state_key # BotUser
    THEN ts
    ELSE Append(ts, NewTask(i))

\* the client calls the registered handlers on the next event of the response
dispatch ==
    /\ UNCHANGED call
    /\ pc \in {"catchup_handlers", "steady_handlers"}
    /\ inflight # << >>
    /\ LET i == Head(inflight)
           e == serverLog[i]
       IN  /\ inflight' = Tail(inflight)
           /\ delivered' =
                IF e.type = "m.room.message" /\ "on_room_message" \in handlers
                THEN [delivered EXCEPT ![i] = @ + 1]
                ELSE delivered
           /\ tasks' =
                IF e.type = "invite" /\ "on_stripped_state_member" \in handlers
                THEN on_stripped_state_member(i, tasks)
                ELSE tasks
    /\ UNCHANGED << pc, err, config, file, client, initial_sync_token,
                    sync_token, handlers, serverLog, serverDevices, next_batch,
                    hist >>

\* the initial sync is done: keep next_batch for the next request, persist it
catchup_done ==
    /\ UNCHANGED call
    /\ pc = "catchup_handlers"
    /\ inflight = << >>
    /\ LET persisted == persist_sync_token(file, next_batch)
       IN  IF ~persisted.ok
           THEN /\ Exit("returned_err", "Persist")
                /\ UNCHANGED << file, hist >>
           ELSE /\ pc' = "cleanup"
                /\ sync_token' = Some(next_batch)
                /\ file' = persisted.file
                /\ hist' = [hist EXCEPT !.lastPersist = Some(next_batch),
                                        !.lastCompleted = Some(next_batch)]
                /\ UNCHANGED << err, client, handlers, inflight,
                                initial_sync_token, tasks, next_batch >>
    /\ UNCHANGED << config, serverLog, serverDevices, delivered >>

----------------------------------------------------------------------------
(* run(): device cleanup, then the command handler and the sync loop.      *)

\* every device of the account, the current one too
other_devices_all(devices, current_session) == devices

\* the devices run() asks the homeserver to delete
other_devices(devices, current_session) ==
    {d \in devices : Some(d) # current_session}

CurrentDevice ==
    IF IsSome(client.session) THEN Some(Unwrap(client.session).device_id) ELSE None

device_cleanup ==
    /\ UNCHANGED call
    /\ pc = "cleanup"
    /\ IF ~config.delete_other_devices
       THEN /\ pc' = "attach"
            /\ UNCHANGED << err, client, handlers, inflight, sync_token,
                            initial_sync_token, tasks, next_batch,
                            serverDevices, hist >>
       ELSE \E devices_ok \in BOOLEAN, prompt_ok \in BOOLEAN, delete_ok \in BOOLEAN :
              LET others == other_devices(serverDevices, CurrentDevice)
              IN  IF ~devices_ok
                  THEN /\ Exit("returned_err", "Devices")
                       /\ UNCHANGED << serverDevices, hist >>
                  ELSE IF others = {}
                  THEN /\ pc' = "attach"
                       /\ UNCHANGED << err, client, handlers, inflight, sync_token,
                                       initial_sync_token, tasks, next_batch,
                                       serverDevices, hist >>
                  ELSE IF ~config.password /\ ~prompt_ok
                  THEN /\ Exit("panicked", "FATAL: failed to get password")
                       /\ UNCHANGED << serverDevices, hist >>
                  ELSE IF ~delete_ok
                  THEN /\ Exit("returned_err", "DeleteDevices")
                       /\ hist' = [hist EXCEPT !.deleteRequest = Some(others)]
                       /\ UNCHANGED serverDevices
                  ELSE /\ pc' = "attach"
                       /\ serverDevices' = serverDevices \ others
                       /\ hist' = [hist EXCEPT !.deleteRequest = Some(others)]
                       /\ UNCHANGED << err, client, handlers, inflight, sync_token,
                                       initial_sync_token, tasks, next_batch >>
    /\ UNCHANGED << config, file, serverLog, delivered >>

\* `client.add_event_handler(on_room_message)`, then the sync loop starts
attach_handlers ==
    /\ UNCHANGED call
    /\ pc = "attach"
    /\ pc' = "steady"
    /\ handlers' = handlers \cup {"on_room_message"}
    /\ hist' = [hist EXCEPT !.steadySince =
                               IF IsSome(@) THEN @ ELSE Some(TokenPosition(sync_token))]
    /\ UNCHANGED << err, config, file, client, initial_sync_token, sync_token,
                    serverLog, serverDevices, inflight, next_batch, delivered,
                    tasks >>

\* a callback that logs a failed round and lets the loop go on
sync_result_callback_retry(result_ok, session_file, token) ==
    IF ~result_ok
    THEN [ctrl |-> "Continue", why |-> "", file |-> session_file, persisted |-> FALSE]
    ELSE LET persisted == persist_sync_token(session_file, token)
         IN  IF ~persisted.ok
             THEN [ctrl |-> "Err", why |-> "Persist", file |-> session_file,
                   persisted |-> FALSE]
             ELSE [ctrl |-> "Continue", why |-> "", file |-> persisted.file,
                   persisted |-> TRUE]

\* the closure handed to sync_with_result_callback: `sync_result?`, persist
\* the token, Ok(LoopCtrl::Continue)
sync_result_callback(result_ok, session_file, token) ==
    IF ~result_ok
    THEN [ctrl |-> "Err", why |-> "Sync", file |-> session_file, persisted |-> FALSE]
    ELSE LET persisted == persist_sync_token(session_file, token)
         IN  IF ~persisted.ok
             THEN [ctrl |-> "Err", why |-> "Persist", file |-> session_file,
                   persisted |-> FALSE]
             ELSE [ctrl |-> "Continue", why |-> "", file |-> persisted.file,
                   persisted |-> TRUE]

\* sync_with_result_callback ends on the callback's error, `.await?` returns it
AfterCallback(r, completed) ==
    /\ file' = r.file
    /\ IF r.ctrl = "Err"
       THEN /\ Exit("returned_err", r.why)
            /\ hist' = [hist EXCEPT !.round = IF completed THEN @ ELSE "err"]
       ELSE /\ pc' = "steady"
            /\ sync_token' = IF completed THEN Some(next_batch) ELSE sync_token
            /\ hist' = [hist EXCEPT
                          !.round = IF completed THEN @ ELSE "err",
                          !.lastPersist = IF r.persisted THEN Some(next_batch) ELSE @,
                          !.lastCompleted = IF completed THEN Some(next_batch) ELSE @]
            /\ UNCHANGED << err, client, handlers, inflight, initial_sync_token,
                            tasks, next_batch >>

\* a round of the loop whose handlers have all run: the callback gets Ok
steady_round_done ==
    /\ UNCHANGED call
    /\ pc = "steady_handlers"
    /\ inflight = << >>
    /\ call.phase # "called"
    /\ AfterCallback(sync_result_callback(TRUE, file, next_batch), TRUE)
    /\ UNCHANGED << config, serverLog, serverDevices, delivered >>

\* a round of the loop whose sync request fails: the callback gets Err
steady_sync_err ==
    /\ UNCHANGED call
    /\ pc = "steady"
    /\ AfterCallback(sync_result_callback(FALSE, file, next_batch), FALSE)
    /\ UNCHANGED << config, serverLog, serverDevices, delivered >>

----------------------------------------------------------------------------
(* The process is killed, and started again.                               *)

crash ==
    /\ UNCHANGED call
    /\ Running
    /\ Exit("crashed", "killed")
    /\ UNCHANGED << config, file, serverLog, serverDevices,
                    delivered, hist >>

\* the process is killed while fs::write has truncated the session file
AtWrite ==
    \/ pc \in {"catchup_handlers", "steady_handlers"} /\ inflight = << >>
    \/ pc = "login_loop"

crash_mid_write ==
    /\ UNCHANGED call
    /\ AtWrite
    /\ Exit("crashed", "killed")
    /\ file' = WrittenFile(TruncatedText)
    /\ serverDevices' = IF pc = "login_loop"
                        THEN serverDevices \cup {BotDevice} ELSE serverDevices
    /\ UNCHANGED << config, serverLog, delivered, hist >>

restart ==
    /\ UNCHANGED call
    /\ ~Running
    /\ pc' = "main"
    /\ err' = ""
    /\ hist' = [hist EXCEPT !.path = "none", !.round = "none",
                            !.loginAttempts = 0, !.rejected = FALSE]
    /\ UNCHANGED << config, file, client, initial_sync_token, sync_token,
                    handlers, serverLog, serverDevices, inflight, next_batch,
                    delivered, tasks >>

----------------------------------------------------------------------------
(* The join task on_stripped_state_member spawns.                          *)

\* a backoff that grows by a fixed step
next_delay_linear(delay) == delay + 2

next_delay(delay) == delay * 2

gives_up(delay) == delay > MaxDelay

\* what the task logs after the `while let Err(..)` loop
after_loop_log == "Successfully joined room"

TaskUnchanged ==
    UNCHANGED << pc, err, config, file, client, initial_sync_token, sync_token,
                 handlers, serverLog, serverDevices, inflight, next_batch,
                 delivered, hist, call >>

\* room.join() succeeds: the loop ends
join_ok(k) ==
    /\ tasks[k].state = "join"
    /\ tasks' = [tasks EXCEPT ![k] =
                   [@ EXCEPT !.state = "done", !.attempts = @ + 1,
                             !.joined = TRUE,
                             !.logged = @ \cup {after_loop_log}]]
    /\ TaskUnchanged

\* room.join() fails: warn and sleep `delay` seconds
join_err(k) ==
    /\ tasks[k].state = "join"
    /\ tasks' = [tasks EXCEPT ![k] =
                   [@ EXCEPT !.state = "sleep", !.attempts = @ + 1]]
    /\ TaskUnchanged

\* the sleep is over: double the delay, give up past the ceiling
wake(k) ==
    /\ tasks[k].state = "sleep"
    /\ LET t == tasks[k]
           delay == next_delay(t.delay)
           slept == [t EXCEPT !.waits = Append(@, t.delay), !.delay = delay]
       IN  tasks' = [tasks EXCEPT ![k] =
                       IF gives_up(delay)
                       THEN [slept EXCEPT !.state = "done",
                                          !.logged = @ \cup {"Can't join room",
                                                             after_loop_log}]
                       ELSE [slept EXCEPT !.state = "join"]]
    /\ TaskUnchanged

----------------------------------------------------------------------------
\* the bot process and the homeserver
LoopNext ==
    \/ restore_session
    \/ login_begin
    \/ login_attempt
    \/ login_prompt_fails
    \/ server_event
    \/ run_bootstrap
    \/ sync_ok
    \/ catchup_sync_err
    \/ dispatch
    \/ catchup_done
    \/ device_cleanup
    \/ attach_handlers
    \/ steady_round_done
    \/ steady_sync_err
    \/ crash
    \/ crash_mid_write
    \/ restart

\* the join tasks
JoinNext ==
    \/ \E k \in DOMAIN tasks : join_ok(k)
    \/ \E k \in DOMAIN tasks : join_err(k)
    \/ \E k \in DOMAIN tasks : wake(k)

Next == LoopNext

Spec == Init /\ [][Next]_vars

----------------------------------------------------------------------------
(* The join tasks beside a bot that is in its steady state: the state      *)
(* after a login, an initial sync of an empty log and no device cleanup.   *)

JoinInit ==
    LET written == FullSession(ClientSession(Homeserver, "data/dbA", "passA"),
                               ServerSession, None)
    IN  /\ pc = "steady"
        /\ err = ""
        /\ config = [password |-> TRUE, delete_other_devices |-> FALSE]
        /\ file = WrittenFile(to_string([written EXCEPT !.sync_token = Some(0)]))
        /\ client = [built |-> TRUE, homeserver |-> Homeserver,
                     db_path |-> "data/dbA", passphrase |-> "passA",
                     session |-> Some(ServerSession)]
        /\ initial_sync_token = None
        /\ sync_token = Some(0)
        /\ handlers = {"on_stripped_state_member", "on_room_message"}
        /\ serverLog = << >>
        /\ serverDevices = {OldDevice, BotDevice}
        /\ inflight = << >>
        /\ next_batch = 0
        /\ delivered = << >>
        /\ tasks = << >>
        /\ hist = [NoHist EXCEPT !.path = "login", !.loginAttempts = 1,
                                 !.loginWritten = Some(written),
                                 !.lastPersist = Some(0),
                                 !.lastCompleted = Some(0),
                                 !.round = "ok",
                                 !.steadySince = Some(0)]
        /\ call = NoCall

JoinSpecNext ==
    \/ server_event
    \/ sync_ok
    \/ dispatch
    \/ steady_round_done
    \/ crash
    \/ JoinNext

JoinSpec == JoinInit /\ [][JoinSpecNext]_vars

\* the state JoinSpec starts in is one Spec reaches
JoinInitReached == JoinInit

----------------------------------------------------------------------------
(* Text.  A text is a sequence of one-character strings.                   *)

Letters ==
    {"a","b","c","d","e","f","g","h","i","j","k","l","m","n","o","p","q","r",
     "s","t","u","v","w","x","y","z","A","B","C","D","E","F","G","H","I","J",
     "K","L","M","N","O","P","Q","R","S","T","U","V","W","X","Y","Z"}
Digits == {"0","1","2","3","4","5","6","7","8","9"}
IsAlnum(c) == c \in Letters \cup Digits
IsSpace(c) == c \in {" ", "\n", "\t"}

StartsWith(t, prefix) ==
    Len(t) >= Len(prefix) /\ SubSeq(t, 1, Len(prefix)) = prefix

\* the text from position p on
From(t, p) == SubSeq(t, p, Len(t))

\* the position of the first line feed at or after p, or Len(t) + 1
RECURSIVE LineFeed(_, _)
LineFeed(t, p) ==
    IF p > Len(t) THEN Len(t) + 1
    ELSE IF t[p] = "\n" THEN p
    ELSE LineFeed(t, p + 1)

\* ruma's remove_plain_reply_fallback: drop the leading lines that start
\* with "> ", then one empty line
RECURSIVE StripQuotedLines(_)
StripQuotedLines(t) ==
    IF ~StartsWith(t, <<">", " ">>) THEN t
    ELSE IF LineFeed(t, 1) > Len(t) THEN << >>
    ELSE StripQuotedLines(From(t, LineFeed(t, 1) + 1))

remove_plain_reply_fallback(t) ==
    IF ~StartsWith(t, <<">", " ">>) THEN t
    ELSE LET rest == StripQuotedLines(t)
         IN  IF StartsWith(rest, <<"\n">>) THEN From(rest, 2) ELSE rest

----------------------------------------------------------------------------
(* The two command patterns of on_room_message.                            *)

\* MATCH_COMMAND, (?:^|[^a-zA-Z0-9])sed (s.+): does "sed s" followed by a
\* character that is no line feed start at p, after the start of the text
\* or a character that is no letter and no digit?
SedAt(t, p) ==
    /\ p + 5 <= Len(t)
    /\ SubSeq(t, p, p + 4) = <<"s", "e", "d", " ", "s">>
    /\ t[p + 5] # "\n"
    /\ (p = 1 \/ ~IsAlnum(t[p - 1]))

\* its capture group of the leftmost match: from the s to the end of the line
MATCH_COMMAND(t) ==
    IF \E p \in 1 .. Len(t) : SedAt(t, p)
    THEN LET p == CHOOSE q \in 1 .. Len(t) :
                      SedAt(t, q) /\ \A r \in 1 .. (q - 1) : ~SedAt(t, r)
         IN  Some(SubSeq(t, p + 4, LineFeed(t, p + 5) - 1))
    ELSE None

\* MATCH_PATTERN, ^(s[#/].+[#/].+)$: the whole text, with no line feed
MATCH_PATTERN(t) ==
    IF /\ Len(t) >= 5
       /\ t[1] = "s"
       /\ t[2] \in {"#", "/"}
       /\ LineFeed(t, 3) > Len(t)
       /\ \E j \in 4 .. (Len(t) - 1) : t[j] \in {"#", "/"}
    THEN Some(t)
    ELSE None

\* a detection that tries the whole-message pattern first
detect_command_whole_first(body_text) ==
    IF IsSome(MATCH_PATTERN(body_text)) THEN MATCH_PATTERN(body_text)
    ELSE MATCH_COMMAND(body_text)

\* the command of a message body, if it holds one
detect_command(body_text) ==
    IF IsSome(MATCH_COMMAND(body_text)) THEN MATCH_COMMAND(body_text)
    ELSE MATCH_PATTERN(body_text)

----------------------------------------------------------------------------
(* sedregex: s/pattern/replacement/flags.  Patterns are literal texts.     *)

\* the position of the first slash at or after p, or Len(t) + 1
RECURSIVE Slash(_, _)
Slash(t, p) ==
    IF p > Len(t) THEN Len(t) + 1
    ELSE IF t[p] = "/" THEN p
    ELSE Slash(t, p + 1)

\* the segments between the slashes
RECURSIVE SplitSlash(_)
SplitSlash(t) ==
    LET q == Slash(t, 1)
    IN  IF q > Len(t) THEN << t >>
        ELSE << SubSeq(t, 1, q - 1) >> \o SplitSlash(From(t, q + 1))

SedFlags == {"g", "i"}

\* a compiler that accepts a command with too few segments
ReplaceCommand_new_lenient(command) ==
    LET parts == SplitSlash(command)
    IN  [ok |-> TRUE,
         pattern |-> IF Len(parts) >= 2 /\ parts[2] # << >> THEN parts[2] ELSE << "s" >>,
         with |-> IF Len(parts) >= 3 THEN parts[3] ELSE << >>,
         global |-> FALSE]

\* ReplaceCommand::new: [ok, pattern, with, global]
ReplaceCommand_new(command) ==
    LET parts == SplitSlash(command)
        flags == IF Len(parts) >= 4 THEN parts[4] ELSE << >>
    IN  IF /\ Len(parts) >= 3
           /\ parts[1] = << "s" >>
           /\ parts[2] # << >>
           /\ \A k \in DOMAIN flags : flags[k] \in SedFlags
        THEN [ok |-> TRUE, pattern |-> parts[2], with |-> parts[3],
              global |-> \E k \in DOMAIN flags : flags[k] = "g"]
        ELSE [ok |-> FALSE, pattern |-> << >>, with |-> << >>, global |-> FALSE]

\* ReplaceCommand::execute: replace the first match, or every match
RECURSIVE Replace(_, _, _, _)
Replace(t, pattern, with, global) ==
    IF Len(t) < Len(pattern) THEN t
    ELSE IF StartsWith(t, pattern)
    THEN with \o (IF global
                  THEN Replace(From(t, Len(pattern) + 1), pattern, with, global)
                  ELSE From(t, Len(pattern) + 1))
    ELSE << t[1] >> \o Replace(From(t, 2), pattern, with, global)

execute(cmd, t) == Replace(t, cmd.pattern, cmd.with, cmd.global)

----------------------------------------------------------------------------
(* similar: the word diff of two texts, rendered as on_room_message does.  *)

\* the end of the run of characters of one kind (space or not) that starts at p
RECURSIVE RunEnd(_, _)
RunEnd(t, p) ==
    IF p < Len(t) /\ IsSpace(t[p + 1]) = IsSpace(t[p])
    THEN RunEnd(t, p + 1)
    ELSE p

\* TextDiff::from_words: words and the white space between them
RECURSIVE Words(_)
Words(t) ==
    IF t = << >> THEN << >>
    ELSE << SubSeq(t, 1, RunEnd(t, 1)) >> \o Words(From(t, RunEnd(t, 1) + 1))

RECURSIVE LcsLen(_, _)
LcsLen(a, b) ==
    IF a = << >> \/ b = << >> THEN 0
    ELSE IF Head(a) = Head(b) THEN 1 + LcsLen(Tail(a), Tail(b))
    ELSE IF LcsLen(Tail(a), b) >= LcsLen(a, Tail(b))
         THEN LcsLen(Tail(a), b) ELSE LcsLen(a, Tail(b))

\* a shortest edit script from the words a to the words b
RECURSIVE DiffOps(_, _)
DiffOps(a, b) ==
    IF a = << >> /\ b = << >> THEN << >>
    ELSE IF a = << >> THEN << [tag |-> "Insert", text |-> Head(b)] >> \o DiffOps(a, Tail(b))
    ELSE IF b = << >> THEN << [tag |-> "Delete", text |-> Head(a)] >> \o DiffOps(Tail(a), b)
    ELSE IF Head(a) = Head(b)
         THEN << [tag |-> "Equal", text |-> Head(a)] >> \o DiffOps(Tail(a), Tail(b))
    ELSE IF LcsLen(Tail(a), b) >= LcsLen(a, Tail(b))
         THEN << [tag |-> "Delete", text |-> Head(a)] >> \o DiffOps(Tail(a), b)
         ELSE << [tag |-> "Insert", text |-> Head(b)] >> \o DiffOps(a, Tail(b))

\* the end of the run of changes (no Equal) that starts at i
RECURSIVE ChangeEnd(_, _)
ChangeEnd(ops, i) ==
    IF i < Len(ops) /\ ops[i + 1].tag # "Equal" THEN ChangeEnd(ops, i + 1) ELSE i

\* the inserted words of ops[i .. j], joined
RECURSIVE Inserted(_, _, _)
Inserted(ops, i, j) ==
    IF i > j THEN << >>
    ELSE (IF ops[i].tag = "Insert" THEN ops[i].text ELSE << >>) \o Inserted(ops, i + 1, j)

\* the deleted words of ops[i .. j], joined
RECURSIVE Deleted(_, _, _)
Deleted(ops, i, j) ==
    IF i > j THEN << >>
    ELSE (IF ops[i].tag = "Delete" THEN ops[i].text ELSE << >>) \o Deleted(ops, i + 1, j)

\* a rendering that keeps the deleted slices
render_slice_keep_deleted(tag, text) ==
    CASE tag = "Equal" -> text
      [] tag = "Delete" -> text
      [] tag = "Insert" -> << "<u>" >> \o text \o << "</u>" >>

\* how a slice of the diff is rendered
render_slice(tag, text) ==
    CASE tag = "Equal" -> text
      [] tag = "Delete" -> << >>
      [] tag = "Insert" -> << "<u>" >> \o text \o << "</u>" >>

\* `changes`: the slices of the diff in order (of a run of changes first
\* the deleted slice, then the inserted one), each rendered by render_slice
RECURSIVE Render(_, _)
Render(ops, i) ==
    IF i > Len(ops) THEN << >>
    ELSE IF ops[i].tag = "Equal"
         THEN render_slice("Equal", ops[i].text) \o Render(ops, i + 1)
    ELSE LET j == ChangeEnd(ops, i)
             del == Deleted(ops, i, j)
             ins == Inserted(ops, i, j)
         IN  (IF del = << >> THEN << >> ELSE render_slice("Delete", del))
                 \o (IF ins = << >> THEN << >> ELSE render_slice("Insert", ins))
                 \o Render(ops, j + 1)

changes(target_event_text, result) ==
    Render(DiffOps(Words(target_event_text), Words(result)), 1)

----------------------------------------------------------------------------
(* on_room_message.  The room's timeline is the sequence of the events     *)
(* before the incoming message; an event's id is its position in it.       *)

NoRelation ==
    [rel_type |-> "none", event_id |-> 0, in_reply_to |-> None,
     is_falling_back |-> FALSE]
Reply(id) ==
    [rel_type |-> "reply", event_id |-> id, in_reply_to |-> Some(id),
     is_falling_back |-> FALSE]
Thread(root, in_reply_to, is_falling_back) ==
    [rel_type |-> "thread", event_id |-> root, in_reply_to |-> in_reply_to,
     is_falling_back |-> is_falling_back]
Replacement(id) ==
    [rel_type |-> "replace", event_id |-> id, in_reply_to |-> None,
     is_falling_back |-> FALSE]

\* a relation_target that does not follow a plain reply
relation_target_no_reply(relates_to) ==
    CASE relates_to.rel_type = "thread" ->
            [target_id |-> relates_to.in_reply_to,
             thread_root |-> Some(relates_to.event_id)]
      [] OTHER -> [target_id |-> None, thread_root |-> None]

\* a closure that reads in_reply_to only of a thread relation that is not
\* falling back
relation_target_flag(relates_to) ==
    CASE relates_to.rel_type = "reply" ->
            [target_id |-> relates_to.in_reply_to, thread_root |-> None]
      [] relates_to.rel_type = "thread" ->
            [target_id |-> IF relates_to.is_falling_back
                           THEN None
                           ELSE relates_to.in_reply_to,
             thread_root |-> Some(relates_to.event_id)]
      [] OTHER -> [target_id |-> None, thread_root |-> None]

\* the `and_then` closure over relates_to: the id to fetch, and thread_root
relation_target(relates_to) ==
    CASE relates_to.rel_type = "reply" ->
            [target_id |-> relates_to.in_reply_to, thread_root |-> None]
      [] relates_to.rel_type = "thread" ->
            [target_id |-> IF relates_to.is_falling_back
                           THEN relates_to.in_reply_to
                           ELSE relates_to.in_reply_to,
             thread_root |-> Some(relates_to.event_id)]
      [] OTHER -> [target_id |-> None, thread_root |-> None]

\* /context: the ids of at most n events before the message, nearest first
events_before(timeline, n) ==
    [k \in 1 .. (IF n < Len(timeline) THEN n ELSE Len(timeline)) |->
        Len(timeline) - k + 1]

\* the last entry of the window: the farthest event
last_before(before) == before[Len(before)]

\* `context.events_before.first()`
first_before(before) == before[1]

\* the previous event, lines 119-130: [status, id, fetches, lookups];
\* status is "found", "none" (no previous event) or "err" (a `?` returns
\* the error)
previous_event(room, env) ==
    IF ~env.context_ok
    THEN [status |-> "err", id |-> None, fetches |-> 0, lookups |-> 1]
    ELSE LET before == events_before(room.timeline, env.before)
         IN  IF before = << >>
             THEN [status |-> "none", id |-> None, fetches |-> 0, lookups |-> 1]
             ELSE IF room.timeline[first_before(before)].kind = "garbage"
             THEN [status |-> "err", id |-> Some(first_before(before)),
                   fetches |-> 0, lookups |-> 1]
             ELSE [status |-> "found", id |-> Some(first_before(before)),
                   fetches |-> 0, lookups |-> 1]

\* a fetch that turns to the previous event when the named one is not had
fetched_event_or_previous(id, room, env) ==
    IF ~env.fetch_ok \/ id \notin DOMAIN room.timeline
    THEN previous_event(room, env)
    ELSE IF room.timeline[id].kind = "garbage"
    THEN previous_event(room, env)
    ELSE [status |-> "found", id |-> Some(id), fetches |-> 1, lookups |-> 0]

\* the event named by the relation, lines 113-117
fetched_event(id, room, env) ==
    IF ~env.fetch_ok \/ id \notin DOMAIN room.timeline
    THEN [status |-> "err", id |-> None, fetches |-> 1, lookups |-> 0]
    ELSE IF room.timeline[id].kind = "garbage"
    THEN [status |-> "err", id |-> Some(id), fetches |-> 1, lookups |-> 0]
    ELSE [status |-> "found", id |-> Some(id), fetches |-> 1, lookups |-> 0]

\* the target event, lines 93-131
target_event(event, room, env) ==
    LET target_id == relation_target(event.relates_to).target_id
    IN  IF IsSome(target_id)
        THEN fetched_event(Unwrap(target_id), room, env)
        ELSE previous_event(room, env)

\* a content built as a text message
text_html(body, html_body) ==
    [msgtype |-> "m.text", body |-> body, formatted_body |-> html_body,
     relates_to |-> NoRelation]

notice_html(body, html_body) ==
    [msgtype |-> "m.notice", body |-> body, formatted_body |-> html_body,
     relates_to |-> NoRelation]

\* ruma's make_for_thread(.., ReplyWithinThread::Yes, ..): in the thread of
\* the previous message, or in a new thread that this message starts
make_for_thread(content, id, previous_message) ==
    [content EXCEPT !.relates_to =
        Thread(IF IsSome(previous_message.thread)
               THEN Unwrap(previous_message.thread) ELSE id,
               Some(id), FALSE)]

\* ruma's make_reply_to(.., ForwardThread::Yes, ..)
make_reply_to(content, id, original_message) ==
    [content EXCEPT !.relates_to =
        IF IsSome(original_message.thread)
        THEN Thread(Unwrap(original_message.thread), Some(id), TRUE)
        ELSE Reply(id)]

\* a send that is tried a second time when it fails
send_or_log_error_retry(env, message) ==
    [sends |-> IF env.send_ok THEN << message >> ELSE << message, message >>,
     logged |-> IF env.send_ok THEN {} ELSE {"Failed to send message to room"}]

\* room.send is called with the message; its error is logged, not returned
send_or_log_error(env, message) ==
    [sends |-> << message >>,
     logged |-> IF env.send_ok THEN {} ELSE {"Failed to send message to room"}]

NoSend == [sends |-> << >>, logged |-> {}]

\* the outcome of a call: what it returns, the messages room.send was called
\* with, what it logged, the target it found, its requests for events, and its thread_root
HandlerOut(result, sent, found, thread_root) ==
    [result |-> result, sends |-> sent.sends, logged |-> sent.logged,
     target |-> found.id, fetches |-> found.fetches, lookups |-> found.lookups,
     thread_root |-> thread_root]

Untouched == [status |-> "none", id |-> None, fetches |-> 0, lookups |-> 0]

on_room_message(event, room, env) ==
    IF room.state # "Joined" THEN HandlerOut("Ok", NoSend, Untouched, None)
    ELSE IF event.msgtype # "m.text" THEN HandlerOut("Ok", NoSend, Untouched, None)
    ELSE
    LET body_text == remove_plain_reply_fallback(event.body)
        command == detect_command(body_text)
    IN  IF ~IsSome(command) THEN HandlerOut("Ok", NoSend, Untouched, None)
        ELSE
        LET thread_root == relation_target(event.relates_to).thread_root
            found == target_event(event, room, env)
        IN  IF found.status = "err" THEN HandlerOut("Err", NoSend, found, thread_root)
            ELSE IF found.status = "none" THEN HandlerOut("Ok", NoSend, found, thread_root)
            ELSE
            LET id == Unwrap(found.id)
                target_event_message == room.timeline[id]
            IN  IF target_event_message.kind # "message"
                THEN HandlerOut("Ok", NoSend, found, thread_root)
                ELSE
                LET target_event_text ==
                        remove_plain_reply_fallback(target_event_message.body)
                    compiled == ReplaceCommand_new(Unwrap(command))
                    result == execute(compiled, target_event_text)
                    content == notice_html(result, changes(target_event_text, result))
                    message ==
                        IF IsSome(thread_root)
                        THEN make_for_thread(content, id, target_event_message)
                        ELSE make_reply_to(content, id, target_event_message)
                IN  IF ~compiled.ok THEN HandlerOut("Err", NoSend, found, thread_root)
                    ELSE HandlerOut("Ok", send_or_log_error(env, message), found, thread_root)

----------------------------------------------------------------------------
(* One call of on_room_message, for every message, room and behaviour of   *)
(* the homeserver within the bounds.                                       *)

\* the longest timeline of a room
MaxTimeline == 2

RoomEvent(kind, body, thread) == [kind |-> kind, body |-> body, thread |-> thread]

\* bodies of the messages a command is applied to: "a a" and "> b\n\na"
MessageBodies ==
    { <<"a", " ", "a">>, <<">", " ", "b", "\n", "\n", "a">> }

\* original messages (in a thread or not) and events that are no original
\* message: a redacted message, a state event, one that does not deserialize
RoomEvents ==
    { RoomEvent("message", b, None) : b \in MessageBodies }
        \cup { RoomEvent("message", <<"a", " ", "a">>, Some(1)) }
        \cup { RoomEvent(k, << >>, None) : k \in {"redacted", "state", "garbage"} }

Timelines == UNION { [1 .. n -> RoomEvents] : n \in 0 .. MaxTimeline }

\* "s/a/c/", "sed s/a/c/g", "> q\n\ns/a/c/", "sed s/a" and "hi"
Bodies ==
    { <<"s", "/", "a", "/", "c", "/">>,
      <<"s", "e", "d", " ", "s", "/", "a", "/", "c", "/", "g">>,
      <<">", " ", "q", "\n", "\n", "s", "/", "a", "/", "c", "/">>,
      <<"s", "e", "d", " ", "s", "/", "a">>,
      <<"h", "i">> }

\* event ids a relation can name: the timeline's, and one the room lacks
EventIds == 1 .. (MaxTimeline + 1)

Relations ==
    {NoRelation}
        \cup { Reply(id) : id \in EventIds }
        \cup { Thread(1, irt, fb) :
                 irt \in {None} \cup { Some(id) : id \in EventIds },
                 fb \in BOOLEAN }
        \cup { Replacement(id) : id \in EventIds }

Messages ==
    [msgtype : {"m.text", "m.notice"}, body : Bodies, relates_to : Relations]

Rooms == [state : {"Joined", "Left"}, timeline : Timelines]

\* the homeserver: does GET /event succeed, does GET /context, how many
\* events before the message does it return, does it accept the send
Envs ==
    [fetch_ok : BOOLEAN, context_ok : BOOLEAN, before : 1 .. ContextSize,
     send_ok : BOOLEAN]

HandlerInit ==
    /\ pc = "steady_handlers"
    /\ err = ""
    /\ config = [password |-> TRUE, delete_other_devices |-> FALSE]
    /\ file = AbsentFile
    /\ client = NoClient
    /\ initial_sync_token = None
    /\ sync_token = None
    /\ handlers = {"on_stripped_state_member", "on_room_message"}
    /\ serverLog = << >>
    /\ serverDevices = {BotDevice}
    /\ inflight = << >>
    /\ next_batch = 0
    /\ delivered = << >>
    /\ tasks = << >>
    /\ hist = NoHist
    /\ \E event \in Messages, room \in Rooms :
          call = [phase |-> "called", event |-> event, room |-> room]

\* the handler runs to its end
handle ==
    /\ call.phase = "called"
    /\ \E env \in Envs :
          call' = [phase |-> "done", event |-> call.event, room |-> call.room,
                   env |-> env,
                   out |-> on_room_message(call.event, call.room, env)]
    /\ UNCHANGED << pc, err, config, file, client, initial_sync_token,
                    sync_token, handlers, serverLog, serverDevices, inflight,
                    next_batch, delivered, tasks, hist >>

HandlerNext == handle

HandlerSpec == HandlerInit /\ [][HandlerNext]_vars

----------------------------------------------------------------------------
(* A round of the steady-state loop that delivers one message to           *)
(* on_room_message: the handler runs, then the callback gets the response. *)

\* the bot in its steady state, the handlers of a response of one message
\* running
RoundState ==
    LET written == FullSession(ClientSession(Homeserver, "data/dbA", "passA"),
                               ServerSession, None)
    IN  /\ pc = "steady_handlers"
        /\ err = ""
        /\ config = [password |-> TRUE, delete_other_devices |-> FALSE]
        /\ file = WrittenFile(to_string([written EXCEPT !.sync_token = Some(0)]))
        /\ client = [built |-> TRUE, homeserver |-> Homeserver,
                     db_path |-> "data/dbA", passphrase |-> "passA",
                     session |-> Some(ServerSession)]
        /\ initial_sync_token = None
        /\ sync_token = Some(0)
        /\ handlers = {"on_stripped_state_member", "on_room_message"}
        /\ serverLog = << MessageEvent >>
        /\ serverDevices = {OldDevice, BotDevice}
        /\ inflight = << >>
        /\ next_batch = 1
        /\ delivered = << 1 >>
        /\ tasks = << >>
        /\ hist = [NoHist EXCEPT !.path = "login", !.loginAttempts = 1,
                                 !.loginWritten = Some(written),
                                 !.lastPersist = Some(0),
                                 !.lastCompleted = Some(0),
                                 !.round = "ok",
                                 !.steadySince = Some(0),
                                 !.steadyUpTo = 1]

\* the messages of the round: text messages in a joined room, with no
\* relation, in reply to the first event, or in reply to an unknown event
RoundMessages ==
    [msgtype : {"m.text"}, body : Bodies,
     relates_to : {NoRelation, Reply(1), Reply(MaxTimeline + 1)}]

RoundInit ==
    /\ RoundState
    /\ \E event \in RoundMessages, timeline \in Timelines :
          call = [phase |-> "called", event |-> event,
                  room |-> [state |-> "Joined", timeline |-> timeline]]

RoundNext ==
    \/ handle
    \/ steady_round_done
    \/ sync_ok

RoundSpec == RoundInit /\ [][RoundNext]_vars

----------------------------------------------------------------------------
(* Command detection on message bodies built of four parts.                *)

\* what precedes: nothing, "u", "please ", "s/", "9", "("
BodyPrefixes ==
    { << >>,
      << "u" >>,
      << "p", "l", "e", "a", "s", "e", " " >>,
      << "s", "/" >>,
      << "9" >>,
      << "(" >> }

\* the token: "sed ", "sed" without its space, or none
BodyWords ==
    { << "s", "e", "d", " " >>,
      << "s", "e", "d" >>,
      << >> }

\* what follows the token
BodyRests ==
    { << "s", "/", "f", "o", "o", "/", "b", "a", "r", "/" >>,
      << "s", "#", "f", "o", "o", "#", "b", "a", "r", "#" >>,
      << "s", "/", "a", "/", "b", "/" >>,
      << "s", "/", "a" >>,
      << "s" >>,
      << "x", "/", "a", "/", "b", "/" >>,
      << "h", "e", "l", "l", "o", " ", "t", "h", "e", "r", "e" >> }

\* the end of the body: nothing, " y", or a second line
BodySuffixes ==
    { << >>,
      << " ", "y" >>,
      << "\n", "x" >> }

BodyParts ==
    [prefix : BodyPrefixes, word : BodyWords, rest : BodyRests,
     suffix : BodySuffixes]

BodyOf(parts) == parts.prefix \o parts.word \o parts.rest \o parts.suffix

\* a room of one message, and a homeserver that answers every request
OneMessageRoom ==
    [state |-> "Joined",
     timeline |-> << RoomEvent("message", << "f", "o", "o" >>, None) >>]

AllOk == [fetch_ok |-> TRUE, context_ok |-> TRUE, before |-> 1, send_ok |-> TRUE]

DetectInit ==
    /\ RoundState
    /\ \E parts \in BodyParts : call = [phase |-> "received", parts |-> parts]

\* lines 75-88 on the body, and the whole handler on a text message with it
detect ==
    /\ call.phase = "received"
    /\ call' = [phase |-> "detected", parts |-> call.parts,
                command |-> detect_command(
                                remove_plain_reply_fallback(BodyOf(call.parts))),
                out |-> on_room_message(
                            [msgtype |-> "m.text", body |-> BodyOf(call.parts),
                             relates_to |-> NoRelation],
                            OneMessageRoom, AllOk)]
    /\ UNCHANGED << pc, err, config, file, client, initial_sync_token,
                    sync_token, handlers, serverLog, serverDevices, inflight,
                    next_batch, delivered, tasks, hist >>

DetectNext == detect

DetectSpec == DetectInit /\ [][DetectNext]_vars

----------------------------------------------------------------------------
(* The rendering of a diff, for every pair of short texts.                 *)

\* the most words of a text
MaxWords == 3

\* the words of the target's text, and those of the result
OldVocabulary ==
    { << "t", "h", "e" >>, << "c", "a", "t" >>, << "s", "a", "t" >> }

NewVocabulary ==
    { << "t", "h", "e" >>, << "d", "o", "g" >>, << "s", "a", "t" >> }

\* the words, with a space between two
RECURSIVE JoinWords(_)
JoinWords(ws) ==
    IF ws = << >> THEN << >>
    ELSE IF Len(ws) = 1 THEN ws[1]
    ELSE ws[1] \o << " " >> \o JoinWords(Tail(ws))

Texts(vocabulary) ==
    { JoinWords(ws) : ws \in UNION { [1 .. n -> vocabulary] : n \in 0 .. MaxWords } }

DiffInit ==
    /\ RoundState
    /\ \E old \in Texts(OldVocabulary), new \in Texts(NewVocabulary) :
          call = [phase |-> "texts", old |-> old, new |-> new]

\* lines 150-161 on the target's text and the result of the command
render ==
    /\ call.phase = "texts"
    /\ call' = [phase |-> "rendered", old |-> call.old, new |-> call.new,
                ops |-> DiffOps(Words(call.old), Words(call.new)),
                changes |-> changes(call.old, call.new)]
    /\ UNCHANGED << pc, err, config, file, client, initial_sync_token,
                    sync_token, handlers, serverLog, serverDevices, inflight,
                    next_batch, delivered, tasks, hist >>

DiffNext == render

DiffSpec == DiffInit /\ [][DiffNext]_vars

----------------------------------------------------------------------------
(* A command, the answer of the bot, and the answer's way back: the next   *)
(* sync response holds it, and on_room_message is called with it.          *)

\* the most answers of the bot the homeserver takes
MaxChain == 2

\* bodies of the targets: "a a", and "s/a/a/", which a command turns into
\* a text that is a command itself
EchoBodies ==
    { << "a", " ", "a" >>, << "s", "/", "a", "/", "a", "/" >> }

EchoEvents ==
    { RoomEvent("message", b, None) : b \in EchoBodies }
        \cup { RoomEvent("message", << "a", " ", "a" >>, Some(1)) }

EchoTimelines == UNION { [1 .. n -> EchoEvents] : n \in 1 .. MaxTimeline }

\* "s/a/c/" and "sed s/a/c/g"
EchoCommands ==
    [msgtype : {"m.text"},
     body : { << "s", "/", "a", "/", "c", "/" >>,
              << "s", "e", "d", " ", "s", "/", "a", "/", "c", "/", "g" >> },
     relates_to : {NoRelation, Reply(1), Thread(1, Some(1), FALSE)}]

EchoInit ==
    /\ RoundState
    /\ \E event \in EchoCommands, timeline \in EchoTimelines :
          call = [phase |-> "called", event |-> event,
                  room |-> [state |-> "Joined", timeline |-> timeline]]

\* the homeserver took the message the handler sent; a later response
\* brings it back, after the message the handler was called with, and the
\* client calls on_room_message with it
echo ==
    /\ call.phase = "done"
    /\ call.out.sends # << >>
    /\ call.env.send_ok
    /\ Len(serverLog) <= MaxChain
    /\ LET sent == call.out.sends[1]
       IN  call' = [phase |-> "called",
                    event |-> [msgtype |-> sent.msgtype, body |-> sent.body,
                               relates_to |-> sent.relates_to],
                    room |-> [call.room EXCEPT !.timeline =
                                 Append(@, RoomEvent("message", call.event.body,
                                                     None))]]
    /\ serverLog' = Append(serverLog, MessageEvent)
    /\ delivered' = Append(delivered, 1)
    /\ UNCHANGED << pc, err, config, file, client, initial_sync_token,
                    sync_token, handlers, serverDevices, inflight, next_batch,
                    tasks, hist >>

EchoNext ==
    \/ handle
    \/ echo

EchoSpec == EchoInit /\ [][EchoNext]_vars

----------------------------------------------------------------------------
(* Claims about the sync loop and the session file (checked under Spec).   *)

\* a step in which a sync request of the named phase fails
FailedRound(phase) ==
    /\ pc = phase
    /\ hist'.round = "err"
    /\ serverLog' = serverLog
    /\ pc' # "crashed"

\* C1, as the specification states it: a failed round in the steady state
\* is logged and another round is attempted; run() does not end on it.
C1_FailedRoundRetried ==
    [][FailedRound("steady") => pc' = "steady"]_vars

\* C1, amended: a failed round in the steady state ends run() with the
\* round's error and leaves the session file alone; only a failed round of
\* the initial sync is retried.
C1_FailedRoundEndsRun ==
    [][ /\ FailedRound("steady") =>
             pc' = "returned_err" /\ err' = "Sync" /\ file' = file
        /\ FailedRound("catchup") => pc' = "catchup" /\ file' = file ]_vars

\* C1 witness: run() has returned the error of a failed steady-state round
C1_Witness ==
    pc = "returned_err" /\ err = "Sync" /\ IsSome(hist.steadySince)

\* C2: the cursor in the session file is absent or is the next_batch of the
\* latest round that completed (response received, handlers run, cursor
\* persisted), and a round that fails leaves the session file unchanged.
C2_CursorIsLastCompleted ==
    /\ [](IsSome(FileCursor) => FileCursor = hist.lastCompleted)
    /\ [][(FailedRound("steady") \/ FailedRound("catchup")) => file' = file]_vars

\* C2 witness: two rounds have completed and the file holds the later cursor
C2_Witness ==
    /\ pc = "steady"
    /\ FileCursor = Some(2)
    /\ hist.steadySince = Some(1)

MessageIds == {i \in DOMAIN serverLog : serverLog[i].type = "m.room.message"}

\* C3, as the specification states it: the persisted cursor never passes a
\* message a steady-state round returned unless on_room_message was called
\* with it (so the messages of a round cut short by a crash are delivered
\* after the restart, before the cursor passes them).
C3_AtLeastOnce ==
    \A i \in MessageIds :
        ( /\ IsSome(hist.steadySince)
          /\ i > Unwrap(hist.steadySince)
          /\ i <= hist.steadyUpTo
          /\ i <= TokenPosition(FileCursor) ) => delivered[i] >= 1

\* C3, amended: the steady-state loop persists a cursor only past messages
\* on_room_message was called with; a message the persisted cursor has
\* passed is never delivered afterwards, so no message is delivered twice;
\* and the initial sync of a restarted bot delivers nothing to
\* on_room_message, whatever it returns.
C3_AtMostOnce ==
    /\ [][ (pc = "steady_handlers" /\ pc' = "steady") =>
              \A i \in MessageIds :
                  (TokenPosition(FileCursor) < i /\ i <= TokenPosition(FileCursor'))
                      => delivered[i] >= 1 ]_vars
    /\ [][ \A i \in DOMAIN delivered :
              (i <= TokenPosition(FileCursor) \/ pc \in {"catchup", "catchup_handlers"})
                  => delivered'[i] = delivered[i] ]_vars
    /\ [](\A i \in DOMAIN delivered : delivered[i] <= 1)

\* C3 witness: after a restart the bot is steady again, and a message that
\* arrived after it first was steady lies behind the cursor, undelivered
C3_Witness ==
    /\ pc = "steady"
    /\ hist.path = "restore"
    /\ \E i \in MessageIds :
          /\ i > Unwrap(hist.steadySince)
          /\ i <= hist.steadyUpTo
          /\ i <= TokenPosition(FileCursor)
          /\ delivered[i] = 0
    /\ \E i \in MessageIds : delivered[i] = 1

\* C4: with no session file and a configured password, a rejected login
\* ends login() after one attempt with an error result (AuthFailed), and no
\* session file is written.
C4_RejectedLoginReturnsError ==
    (hist.path = "login" /\ config.password /\ hist.rejected) =>
        /\ pc = "returned_err"
        /\ err = "AuthFailed"
        /\ hist.loginAttempts = 1
        /\ ~file.exists

\* C5: main() restores exactly when the session file exists; a restore
\* attempts no login and writes nothing, and a file that does not parse or a
\* session that is rejected ends main() with the error; a login that
\* succeeds leaves a session file without a sync token before run() starts.
C5_RestoreOrLogin ==
    /\ [][ (pc = "main" /\ pc' \notin {"main", "crashed"}) =>
              /\ hist'.path = IF file.exists THEN "restore" ELSE "login"
              /\ file.exists =>
                    /\ file' = file
                    /\ hist'.loginAttempts = hist.loginAttempts
                    /\ pc' \in {"run", "returned_err"}
                    /\ pc' = "run" => from_str(file.text).ok ]_vars
    /\ [](hist.path = "restore" => pc # "login_loop")
    /\ []((pc = "run" /\ hist.path = "login") =>
              /\ file.exists
              /\ from_str(file.text).ok
              /\ FileCursor = None
              /\ Some(from_str(file.text).value.user_session) = client.session)

\* C5 witness: a second start found the file the first start's login wrote,
\* restored from it and is about to run
C5_Witness ==
    /\ pc = "run"
    /\ hist.path = "restore"
    /\ IsSome(hist.loginWritten)

\* C6: restore_session returns the token of the last persist_sync_token
\* call since the login (none if there was no call), and the homeserver,
\* database path, passphrase and user session it reads are those the login
\* wrote: persist_sync_token changes the sync_token field only.
C6_RoundTrip ==
    /\ (pc = "run" /\ hist.path = "restore") =>
          /\ IsSome(hist.loginWritten)
          /\ initial_sync_token = hist.lastPersist
          /\ client.homeserver = Unwrap(hist.loginWritten).client_session.homeserver
          /\ client.db_path = Unwrap(hist.loginWritten).client_session.db_path
          /\ client.passphrase = Unwrap(hist.loginWritten).client_session.passphrase
          /\ client.session = Some(Unwrap(hist.loginWritten).user_session)
    /\ (file.exists /\ from_str(file.text).ok) =>
          /\ IsSome(hist.loginWritten)
          /\ from_str(file.text).value.sync_token = hist.lastPersist
          /\ [from_str(file.text).value EXCEPT !.sync_token = None]
                 = Unwrap(hist.loginWritten)

\* C6 witness: the bot restored a token that two persist calls had written
C6_Witness ==
    /\ pc = "run"
    /\ hist.path = "restore"
    /\ initial_sync_token = Some(2)
    /\ client.passphrase = "passB"

----------------------------------------------------------------------------
(* Claims about the join task (checked under JoinSpec).                    *)

RECURSIVE Pow2(_)
Pow2(n) == IF n = 0 THEN 1 ELSE 2 * Pow2(n - 1)

\* the number of sleeps whose length does not exceed the ceiling
MaxSleeps == CHOOSE n \in 0 .. MaxDelay : Pow2(n) <= MaxDelay /\ Pow2(n + 1) > MaxDelay

\* C7: while every join fails the task sleeps 2, 4, 8, ... seconds, each
\* sleep twice the one before and none above 3600; it makes a bounded number
\* of attempts, ends once the delay exceeds 3600, and a task that has ended
\* attempts no further join.
C7_Backoff ==
    /\ [](\A k \in DOMAIN tasks :
            LET t == tasks[k]
            IN  /\ \A j \in DOMAIN t.waits :
                      /\ t.waits[j] = Pow2(j)
                      /\ t.waits[j] <= MaxDelay
                      /\ j > 1 => t.waits[j] = 2 * t.waits[j - 1]
                /\ t.attempts <= MaxSleeps
                /\ t.attempts \in {Len(t.waits), Len(t.waits) + 1}
                /\ (t.delay > MaxDelay) = (t.state = "done" /\ ~t.joined)
                /\ (t.state = "done" /\ ~t.joined) => Len(t.waits) = MaxSleeps)
    /\ [][\A k \in DOMAIN tasks :
            (tasks[k].state = "done" /\ k \in DOMAIN tasks') =>
                tasks'[k] = tasks[k]]_vars

\* C7 witness: a task whose joins all failed has slept its last, longest
\* sleep and given up
C7_Witness ==
    \E k \in DOMAIN tasks :
        /\ tasks[k].state = "done"
        /\ ~tasks[k].joined
        /\ tasks[k].attempts = 11
        /\ tasks[k].waits[11] = 2048

\* C8: a task reports that it joined the room only if one of its join
\* attempts succeeded, never when it gave up.
C8_JoinedOnlyOnSuccess ==
    \A k \in DOMAIN tasks :
        "Successfully joined room" \in tasks[k].logged => tasks[k].joined

----------------------------------------------------------------------------
(* Claims about on_room_message (checked under HandlerSpec).               *)

\* the call has ended, and its message was a command in a joined room
CommandHandled ==
    /\ call.phase = "done"
    /\ call.room.state = "Joined"
    /\ call.event.msgtype = "m.text"
    /\ IsSome(detect_command(remove_plain_reply_fallback(call.event.body)))

\* what the command of the call makes of the message with id E
Applied(E) ==
    execute(ReplaceCommand_new(
                Unwrap(detect_command(remove_plain_reply_fallback(call.event.body)))),
            remove_plain_reply_fallback(call.room.timeline[E].body))

Compiles ==
    ReplaceCommand_new(
        Unwrap(detect_command(remove_plain_reply_fallback(call.event.body)))).ok

\* the one message sent answers the event with id E with the command's result
AnswersTo(E) ==
    /\ Len(call.out.sends) = 1
    /\ call.out.sends[1].relates_to.in_reply_to = Some(E)
    /\ call.out.sends[1].body = Applied(E)

\* C9: a command that is a direct reply to E, an original message of the
\* room, is applied to E: the handler asks for E and never for the context
\* of the command, its answer (when E is fetched and the command compiles)
\* is the command applied to E in reply to E, and the other events of the
\* room do not change the outcome.
C9_ReplyTargetsRepliedEvent ==
    \A E \in DOMAIN call.room.timeline :
        ( /\ CommandHandled
          /\ call.event.relates_to = Reply(E)
          /\ call.room.timeline[E].kind = "message" )
        => /\ call.out.lookups = 0
           /\ call.out.fetches = 1
           /\ call.out.target \in {None, Some(E)}
           /\ call.env.fetch_ok =>
                 /\ call.out.target = Some(E)
                 /\ IF Compiles THEN AnswersTo(E) /\ call.out.result = "Ok"
                                ELSE call.out.sends = << >>
           /\ ~call.env.fetch_ok => call.out.sends = << >>
           /\ \A others \in Timelines :
                 (E \in DOMAIN others /\ others[E] = call.room.timeline[E]) =>
                     on_room_message(call.event,
                                     [call.room EXCEPT !.timeline = others],
                                     call.env) = call.out

\* C9 witness: a command in reply to the first of two different messages
\* was answered in reply to the first
C9_Witness ==
    /\ CommandHandled
    /\ Len(call.room.timeline) = 2
    /\ call.event.relates_to = Reply(1)
    /\ call.room.timeline[1] = RoomEvent("message", <<"a", " ", "a">>, None)
    /\ call.room.timeline[2] =
          RoomEvent("message", <<">", " ", "b", "\n", "\n", "a">>, None)
    /\ call.env.before = ContextSize
    /\ AnswersTo(1)
    /\ call.out.sends[1].body # call.room.timeline[1].body

\* C10: a command with no relation is applied to the event right before it,
\* the first entry of events_before, whatever the size of the window: an
\* original message there is answered, any other event there ends the call
\* with nothing sent; with no event before it the handler sends nothing and
\* returns Ok.
C10_NoRelationTargetsPrevious ==
    ( /\ CommandHandled
      /\ call.event.relates_to = NoRelation )
    => LET n == Len(call.room.timeline)
       IN  /\ call.out.fetches = 0
           /\ call.out.lookups = 1
           /\ (call.env.context_ok /\ n = 0) =>
                 /\ call.out.sends = << >>
                 /\ call.out.result = "Ok"
                 /\ call.out.target = None
           /\ (call.env.context_ok /\ n > 0) =>
                 /\ call.out.target = Some(n)
                 /\ (call.room.timeline[n].kind = "message" /\ Compiles) =>
                       AnswersTo(n) /\ call.out.result = "Ok"
                 /\ call.room.timeline[n].kind \in {"redacted", "state"} =>
                       call.out.sends = << >> /\ call.out.result = "Ok"

\* C10 witness: with two messages before the command and both in the
\* window, the answer is to the second, the nearest
C10_Witness ==
    /\ CommandHandled
    /\ call.event.relates_to = NoRelation
    /\ Len(call.room.timeline) = 2
    /\ call.room.timeline[1].kind = "message"
    /\ call.room.timeline[2].kind = "message"
    /\ call.room.timeline[1].body # call.room.timeline[2].body
    /\ call.env.before = 2
    /\ AnswersTo(2)

\* C10, no event before the command: nothing was sent and the call
\* returned Ok
C10_EmptyRoom ==
    /\ CommandHandled
    /\ call.event.relates_to = NoRelation
    /\ call.room.timeline = << >>
    /\ call.env.context_ok
    /\ call.out.sends = << >>
    /\ call.out.result = "Ok"

\* the relation of the command names the event with id E
Names(E) ==
    \/ call.event.relates_to = Reply(E)
    \/ /\ call.event.relates_to.rel_type = "thread"
       /\ call.event.relates_to.in_reply_to = Some(E)

\* the event with id E cannot be fetched, or does not deserialize
Unavailable(E) ==
    \/ ~call.env.fetch_ok
    \/ E \notin DOMAIN call.room.timeline
    \/ call.room.timeline[E].kind = "garbage"

\* the event with id E is fetched and is no original room message
NotOriginalMessage(E) ==
    /\ ~Unavailable(E)
    /\ call.room.timeline[E].kind \in {"redacted", "state"}

\* C11 as stated: when the event the relation names cannot be fetched or
\* deserialized, or is no original message, the handler sends nothing, does
\* not look up the previous event and reports no error.
C11_DroppedWithoutError ==
    \A E \in EventIds :
        (CommandHandled /\ Names(E) /\ (Unavailable(E) \/ NotOriginalMessage(E)))
        => /\ call.out.sends = << >>
           /\ call.out.lookups = 0
           /\ call.out.result = "Ok"

\* C11, amended: in those cases the handler sends nothing and does not look
\* up the previous event; it returns Ok when the event is no original
\* message, and returns the error when the event cannot be fetched or
\* deserialized.
C11_DroppedOrError ==
    \A E \in EventIds :
        (CommandHandled /\ Names(E) /\ (Unavailable(E) \/ NotOriginalMessage(E)))
        => /\ call.out.sends = << >>
           /\ call.out.logged = {}
           /\ call.out.lookups = 0
           /\ call.out.fetches = 1
           /\ (call.out.result = "Err") = Unavailable(E)
           /\ (call.out.result = "Ok") = NotOriginalMessage(E)

\* C11 witness: the fetch of the replied-to message failed while the room
\* held a previous message; the call returned the error and sent nothing
C11_Witness ==
    /\ CommandHandled
    /\ Names(1)
    /\ ~call.env.fetch_ok
    /\ call.env.context_ok
    /\ Len(call.room.timeline) = 2
    /\ call.room.timeline[1].kind = "message"
    /\ call.room.timeline[2].kind = "message"
    /\ call.out.result = "Err"
    /\ call.out.sends = << >>

\* the command names an event by its relation
NamesSome == \E E \in EventIds : Names(E)

\* the target the command is meant for is had and is an original message:
\* the event its relation names, or else the event right before it
ValidTarget ==
    IF NamesSome
    THEN LET E == CHOOSE F \in EventIds : Names(F)
         IN  ~Unavailable(E) /\ call.room.timeline[E].kind = "message"
    ELSE /\ call.env.context_ok
         /\ call.room.timeline # << >>
         /\ call.room.timeline[Len(call.room.timeline)].kind = "message"

\* the positions of the slashes of a text
Slashes(t) == { i \in DOMAIN t : t[i] = "/" }

\* s/pattern/replacement/flags: an s, at least two slashes with a pattern
\* between the first two, and only known flags after a third
WellFormed(t) ==
    /\ Len(t) >= 2 /\ t[1] = "s" /\ t[2] = "/"
    /\ Cardinality(Slashes(t)) >= 2
    /\ 3 \notin Slashes(t)
    /\ \A i \in Slashes(t) :
          Cardinality({ j \in Slashes(t) : j < i }) = 2 =>
              \A k \in (i + 1) .. Len(t) : t[k] \in SedFlags \cup {"/"}

\* the command of the call's message is well formed
CommandWellFormed ==
    WellFormed(Unwrap(detect_command(remove_plain_reply_fallback(call.event.body))))

\* C12: a call of on_room_message calls send exactly once when its message
\* holds a command that compiles and the target is a valid one, and not at
\* all otherwise (no command in the body, a malformed command, no valid
\* target); it never calls send more than once.
C12_OneSendOrNone ==
    call.phase = "done" =>
        /\ Len(call.out.sends) <= 1
        /\ Len(call.out.sends) =
              IF CommandHandled /\ CommandWellFormed /\ ValidTarget THEN 1 ELSE 0

\* C12 witness: a malformed command after an original message ended with
\* no send
C12_Witness ==
    /\ CommandHandled
    /\ ~CommandWellFormed
    /\ ValidTarget
    /\ call.event.relates_to = NoRelation
    /\ call.out.sends = << >>

\* C12, the other case: a command that compiles, with a valid target, was
\* answered with one send
C12_OneSent ==
    /\ CommandHandled
    /\ CommandWellFormed
    /\ ValidTarget
    /\ Len(call.out.sends) = 1

----------------------------------------------------------------------------
(* Claims about a round that delivers a message (checked under RoundSpec). *)

\* the state RoundSpec starts in, but for the call, is one Spec reaches
RoundStateReached == RoundState

\* the call ended with a failure of its own: a failed send, a malformed
\* command, or no target
PerEventFailure ==
    /\ call.phase = "done"
    /\ \/ call.out.logged # {}
       \/ call.out.result = "Err"
       \/ call.out.sends = << >>

\* C13: a send that fails was tried once, and the handler still returns Ok;
\* whatever the handler met, the loop never ends, and the round is
\* completed: the callback persists the cursor and the next round can start.
C13_FailuresStayInHandler ==
    /\ [](pc \in {"steady_handlers", "steady"} /\ err = "")
    /\ []((call.phase = "done" /\ call.out.logged # {}) =>
             /\ ~call.env.send_ok
             /\ Len(call.out.sends) = 1
             /\ call.out.result = "Ok")
    /\ [][(PerEventFailure /\ pc = "steady_handlers") =>
             /\ pc' = "steady"
             /\ sync_token' = Some(next_batch)
             /\ FileCursor' = Some(next_batch)]_vars

\* C13 witness: the send of the answer failed, and the round was completed
\* with its cursor persisted
C13_Witness ==
    /\ call.phase = "done"
    /\ ~call.env.send_ok
    /\ Len(call.out.sends) = 1
    /\ call.out.logged # {}
    /\ call.out.result = "Ok"
    /\ pc = "steady"
    /\ FileCursor = Some(1)

----------------------------------------------------------------------------
(* Claims about the order of run() (checked under Spec).                   *)

\* run() is between its first sync request and the start of the sync loop
BeforeSteady == pc \in {"catchup", "catchup_handlers", "cleanup", "attach"}

\* C14: the membership handler is registered before the first sync request,
\* so an invite to the bot delivered in the catch-up round starts a join
\* task; the command handler is registered only after the catch-up sync
\* succeeded, its cursor was persisted and the device cleanup is over, so no
\* message delivered during catch-up reaches on_room_message.
C14_StartupOrder ==
    /\ []((BeforeSteady \/ pc \in {"steady", "steady_handlers"}) =>
             "on_stripped_state_member" \in handlers)
    /\ [](BeforeSteady => "on_room_message" \notin handlers)
    /\ []("on_room_message" \in handlers => pc \in {"steady", "steady_handlers"})
    /\ [](pc = "attach" =>
             /\ IsSome(sync_token)
             /\ FileCursor = sync_token
             /\ hist.round = "ok"
             /\ config.delete_other_devices =>
                   other_devices(serverDevices, CurrentDevice) = {})
    /\ [][("on_room_message" \notin handlers /\ "on_room_message" \in handlers') =>
             pc = "attach" /\ pc' = "steady"]_vars
    /\ [][pc = "catchup_handlers" =>
             /\ delivered' \in {delivered, Append(delivered, 0)}
             /\ (/\ pc' = "catchup_handlers"
                 /\ inflight # << >>
                 /\ inflight' = Tail(inflight)
                 /\ serverLog[Head(inflight)] = InviteEvent(BotUser)) =>
                    /\ Len(tasks') = Len(tasks) + 1
                    /\ tasks'[Len(tasks')].event = Head(inflight)]_vars

\* C14 witness: the bot reached its steady state after a catch-up round
\* that held a message and an invite to the bot: the invite started a join
\* task, the message was never handed to on_room_message
C14_Witness ==
    /\ pc = "steady"
    /\ hist.steadySince = Some(2)
    /\ tasks # << >>
    /\ \E i \in DOMAIN serverLog :
          serverLog[i] = MessageEvent /\ delivered[i] = 0

\* C15: devices are deleted only when delete_other_devices is set; the
\* request then names exactly the account's devices but the current one,
\* and is not made when there is none; run() reaches the registration of the
\* command handler only when the enumeration and the deletion succeeded, and
\* returns the error otherwise.
C15_DeviceCleanup ==
    /\ [](IsSome(hist.deleteRequest) => config.delete_other_devices)
    /\ [][hist'.deleteRequest # hist.deleteRequest =>
             /\ pc = "cleanup"
             /\ config.delete_other_devices
             /\ hist'.deleteRequest = Some(serverDevices \ {BotDevice})
             /\ BotDevice \notin Unwrap(hist'.deleteRequest)
             /\ Unwrap(hist'.deleteRequest) # {}]_vars
    /\ [][pc = "cleanup" =>
             /\ serverDevices' # serverDevices =>
                   /\ hist'.deleteRequest = Some(serverDevices \ serverDevices')
                   /\ serverDevices' = {BotDevice}
             /\ (pc' = "attach" /\ config.delete_other_devices) =>
                   serverDevices' = {BotDevice}
             /\ (pc' = "attach" /\ ~config.delete_other_devices) =>
                   serverDevices' = serverDevices
             /\ err' \in {"Devices", "DeleteDevices"} =>
                   pc' = "returned_err" /\ "on_room_message" \notin handlers']_vars
    /\ [](err \in {"Devices", "DeleteDevices"} => pc = "returned_err")

\* C15 witness: the other device was deleted on request and the bot reached
\* its steady state with its own device left
C15_Witness ==
    /\ pc = "steady"
    /\ config.delete_other_devices
    /\ hist.deleteRequest = Some({OldDevice})
    /\ serverDevices = {BotDevice}

\* C15, a failed deletion: run() returned the error
C15_DeleteFailed ==
    /\ pc = "returned_err"
    /\ err = "DeleteDevices"
    /\ OldDevice \in serverDevices

----------------------------------------------------------------------------
(* Claims about command detection (checked under DetectSpec).              *)

Parts(prefix, word, rest, suffix) ==
    [prefix |-> prefix, word |-> word, rest |-> rest, suffix |-> suffix]

\* the part of the suffix on the line of the token
SameLine(suffix) == IF suffix # << >> /\ suffix[1] = "\n" THEN << >> ELSE suffix

\* "sed " stands at the start or after a character that is no letter and no
\* digit, and an s and at least one more character follow on its line
Embedded(parts) ==
    /\ parts.word = << "s", "e", "d", " " >>
    /\ parts.rest[1] = "s"
    /\ Len(parts.rest \o SameLine(parts.suffix)) >= 2
    /\ \/ parts.prefix = << >>
       \/ parts.prefix[Len(parts.prefix)] \in {" ", "/", "("}

\* the whole body is one line: an s, a delimiter, and two more parts that a
\* delimiter separates
WholeForm(t) ==
    /\ Len(t) >= 5
    /\ t[1] = "s"
    /\ t[2] \in {"#", "/"}
    /\ \A i \in DOMAIN t : t[i] # "\n"
    /\ \E j \in 4 .. (Len(t) - 1) : t[j] \in {"#", "/"}

\* C16: the embedded pattern is tried before the whole-message pattern and
\* the first that matches gives the command; "please sed s/foo/bar/" gives
\* "s/foo/bar/", "s#foo#bar#" gives itself, "hello there" and "used s/a/b/"
\* give none, and a body with no command is ignored: nothing is fetched,
\* looked up or sent.
C16_Detection ==
    call.phase = "detected" =>
        /\ call.command =
              IF Embedded(call.parts)
              THEN Some(call.parts.rest \o SameLine(call.parts.suffix))
              ELSE IF WholeForm(BodyOf(call.parts))
              THEN Some(BodyOf(call.parts))
              ELSE None
        /\ call.parts = Parts(<< "p", "l", "e", "a", "s", "e", " " >>, << "s", "e", "d", " " >>, << "s", "/", "f", "o", "o", "/", "b", "a", "r", "/" >>, << >>) =>
              call.command = Some(<< "s", "/", "f", "o", "o", "/", "b", "a", "r", "/" >>)
        /\ call.parts = Parts(<< >>, << >>, << "s", "#", "f", "o", "o", "#", "b", "a", "r", "#" >>, << >>) =>
              call.command = Some(<< "s", "#", "f", "o", "o", "#", "b", "a", "r", "#" >>)
        /\ call.parts = Parts(<< >>, << >>, << "h", "e", "l", "l", "o", " ", "t", "h", "e", "r", "e" >>, << >>) =>
              call.command = None
        /\ call.parts = Parts(<< "u" >>, << "s", "e", "d", " " >>, << "s", "/", "a", "/", "b", "/" >>, << >>) =>
              call.command = None
        /\ call.command = None =>
              /\ call.out.result = "Ok"
              /\ call.out.sends = << >>
              /\ call.out.fetches = 0
              /\ call.out.lookups = 0
        /\ call.command # None => call.out.lookups = 1

\* C16 witness: in "s/sed s/foo/bar/" both patterns match, and the command
\* is that of the embedded one
C16_Witness ==
    /\ call.phase = "detected"
    /\ call.parts = Parts(<< "s", "/" >>, << "s", "e", "d", " " >>, << "s", "/", "f", "o", "o", "/", "b", "a", "r", "/" >>, << >>)
    /\ WholeForm(BodyOf(call.parts))
    /\ call.command = Some(<< "s", "/", "f", "o", "o", "/", "b", "a", "r", "/" >>)

\* C16, no command: "used s/a/b/" was ignored
C16_Ignored ==
    /\ call.phase = "detected"
    /\ call.parts = Parts(<< "u" >>, << "s", "e", "d", " " >>, << "s", "/", "a", "/", "b", "/" >>, << >>)
    /\ call.command = None
    /\ call.out.sends = << >>

----------------------------------------------------------------------------
(* Claims about the rendering of the diff (checked under DiffSpec).        *)

Markers == {"<u>", "</u>"}

\* the markup without its markers
Unmarked(m) == SelectSeq(m, LAMBDA c : c \notin Markers)

\* the characters of the markup inside (want = TRUE) or outside the markers
RECURSIVE Region(_, _, _)
Region(m, want, inside) ==
    IF m = << >> THEN << >>
    ELSE IF Head(m) = "<u>" THEN Region(Tail(m), want, TRUE)
    ELSE IF Head(m) = "</u>" THEN Region(Tail(m), want, FALSE)
    ELSE (IF inside = want THEN << Head(m) >> ELSE << >>)
             \o Region(Tail(m), want, inside)

\* markers come in pairs that are not nested and not empty
RECURSIVE Paired(_, _)
Paired(m, inside) ==
    IF m = << >> THEN ~inside
    ELSE IF Head(m) = "<u>"
         THEN ~inside /\ Len(m) >= 2 /\ m[2] \notin Markers /\ Paired(Tail(m), TRUE)
    ELSE IF Head(m) = "</u>" THEN inside /\ Paired(Tail(m), FALSE)
    ELSE Paired(Tail(m), inside)

\* the texts of the segments with one of the tags, in order
RECURSIVE TextOf(_, _)
TextOf(ops, tags) ==
    IF ops = << >> THEN << >>
    ELSE (IF Head(ops).tag \in tags THEN Head(ops).text ELSE << >>)
             \o TextOf(Tail(ops), tags)

TheCatSat == << "t", "h", "e", " ", "c", "a", "t", " ", "s", "a", "t" >>
TheDogSat == << "t", "h", "e", " ", "d", "o", "g", " ", "s", "a", "t" >>

\* C17: the markup is the segments of the diff in order, the equal ones as
\* they are, the deleted ones left out, the inserted ones between an opening
\* and a closing marker; without its markers it is the plain text of the
\* result.  For "the cat sat" and "the dog sat" only "dog" is marked and
\* "cat" is absent.
C17_Markup ==
    call.phase = "rendered" =>
        /\ TextOf(call.ops, {"Equal", "Delete"}) = call.old
        /\ TextOf(call.ops, {"Equal", "Insert"}) = call.new
        /\ Paired(call.changes, FALSE)
        /\ Region(call.changes, TRUE, FALSE) = TextOf(call.ops, {"Insert"})
        /\ Region(call.changes, FALSE, FALSE) = TextOf(call.ops, {"Equal"})
        /\ Unmarked(call.changes) = call.new
        /\ (call.old = TheCatSat /\ call.new = TheDogSat) =>
              call.changes = << "t", "h", "e", " ", "<u>", "d", "o", "g", "</u>", " ", "s", "a", "t" >>

\* C17 witness: "the cat sat" and "the dog sat" were rendered, with "dog"
\* alone between the markers
C17_Witness ==
    /\ call.phase = "rendered"
    /\ call.old = TheCatSat
    /\ call.new = TheDogSat
    /\ Region(call.changes, TRUE, FALSE) = << "d", "o", "g" >>
    /\ Unmarked(call.changes) = TheDogSat

----------------------------------------------------------------------------
(* Claims about the relation of the answer (checked under HandlerSpec).    *)

\* the command was answered
Answered == CommandHandled /\ Len(call.out.sends) = 1

\* the message is in the thread with root T
InThread(message, T) ==
    message.relates_to.rel_type = "thread" /\ message.relates_to.event_id = T

\* C18: an answer to a target in a thread is in that thread, an answer to
\* any other target is a plain reply to it; and the answer to a command
\* in the thread with root T is in the thread with root T, also when the
\* target is the previous event or the root itself.
C18_AnswerInThreadOfCommand ==
    Answered =>
        LET id == Unwrap(call.out.target)
            target == call.room.timeline[id]
            answer == call.out.sends[1]
        IN  /\ call.event.relates_to.rel_type = "thread" =>
                  InThread(answer, call.event.relates_to.event_id)
            /\ IsSome(target.thread) => InThread(answer, Unwrap(target.thread))
            /\ (target.thread = None /\ call.event.relates_to.rel_type # "thread") =>
                  answer.relates_to = Reply(id)

\* the message of the call with the other value of is_falling_back
OtherFlag ==
    [call.event EXCEPT !.relates_to.is_falling_back = ~@]

\* C19: for a command with a thread relation the outcome is the same for
\* both values of is_falling_back; with an in_reply_to the handler fetches
\* that event and it is the target, without one it looks up the previous
\* event; thread_root is the root of the relation in both cases, and an
\* answer is made by make_for_thread.
C19_FlagDoesNotMatter ==
    (CommandHandled /\ call.event.relates_to.rel_type = "thread") =>
        LET rel == call.event.relates_to
            n == Len(call.room.timeline)
        IN  /\ on_room_message(OtherFlag, call.room, call.env) = call.out
            /\ call.out.thread_root = Some(rel.event_id)
            /\ IsSome(rel.in_reply_to) =>
                  /\ call.out.fetches = 1
                  /\ call.out.lookups = 0
                  /\ call.out.target \in {None, rel.in_reply_to}
                  /\ (call.env.fetch_ok /\ Unwrap(rel.in_reply_to) <= n) =>
                        call.out.target = rel.in_reply_to
            /\ rel.in_reply_to = None =>
                  /\ call.out.fetches = 0
                  /\ call.out.lookups = 1
                  /\ (call.env.context_ok /\ n > 0) => call.out.target = Some(n)
            /\ call.out.sends # << >> =>
                  /\ call.out.sends[1].relates_to.rel_type = "thread"
                  /\ call.out.sends[1].relates_to.in_reply_to = call.out.target
                  /\ ~call.out.sends[1].relates_to.is_falling_back

\* C19 witness: a command with a thread relation that is falling back and
\* names the first of two messages was answered in reply to the first
C19_Witness ==
    /\ Answered
    /\ call.event.relates_to = Thread(1, Some(1), TRUE)
    /\ Len(call.room.timeline) = 2
    /\ call.room.timeline[2].kind = "message"
    /\ call.out.target = Some(1)
    /\ call.out.lookups = 0

\* C19, no in_reply_to: the previous event was looked up and answered in a
\* thread
C19_FallThrough ==
    /\ Answered
    /\ call.event.relates_to = Thread(1, None, TRUE)
    /\ Len(call.room.timeline) = 2
    /\ call.out.target = Some(2)
    /\ call.out.lookups = 1
    /\ call.out.thread_root = Some(1)
    /\ call.out.sends[1].relates_to.rel_type = "thread"

----------------------------------------------------------------------------
(* Claims about the join tasks beside the loop (checked under JoinSpec).   *)

\* a join task is asleep between two attempts
Sleeping == \E k \in DOMAIN tasks : tasks[k].state = "sleep"

\* a step of a join task: a task that exists before and after has changed
TaskStep == \E k \in DOMAIN tasks \cap DOMAIN tasks' : tasks'[k] # tasks[k]

\* C20: only an invite whose state_key is the bot starts a join task; the
\* handler returns with the task spawned and no join attempted; while a
\* task sleeps the loop is free to receive a response, call the handlers
\* and complete the round; a step of a join task changes nothing but the
\* task: not the session file, not the state of the loop.
C20_DetachedJoin ==
    /\ [](\A k \in DOMAIN tasks : serverLog[tasks[k].event] = InviteEvent(BotUser))
    /\ [][(pc' = pc /\ inflight # << >> /\ inflight' = Tail(inflight)) =>
             IF serverLog[Head(inflight)] = InviteEvent(BotUser)
             THEN /\ Len(tasks') = Len(tasks) + 1
                  /\ tasks'[Len(tasks')].event = Head(inflight)
                  /\ tasks'[Len(tasks')].state = "join"
                  /\ tasks'[Len(tasks')].attempts = 0
                  /\ \A k \in DOMAIN tasks : tasks'[k] = tasks[k]
             ELSE tasks' = tasks]_vars
    /\ [](Sleeping =>
             /\ pc = "steady" => ENABLED sync_ok
             /\ (pc = "steady_handlers" /\ inflight # << >>) => ENABLED dispatch
             /\ (pc = "steady_handlers" /\ inflight = << >>) => ENABLED steady_round_done)
    /\ [][TaskStep =>
             UNCHANGED << pc, err, file, client, sync_token, initial_sync_token,
                          handlers, inflight, next_batch, delivered, serverLog,
                          serverDevices >>]_vars

\* C20 witness: while the task of an invite sleeps, the round of a later
\* message was completed: the message was handed to on_room_message and the
\* cursor after it is in the session file
C20_Witness ==
    \E k \in DOMAIN tasks :
        /\ tasks[k].state = "sleep"
        /\ \E i \in DOMAIN serverLog :
              /\ i > tasks[k].event
              /\ serverLog[i] = MessageEvent
              /\ delivered[i] = 1
              /\ FileCursor = Some(i)
              /\ pc = "steady"

\* C20, an invite of another user: it was handed to the handler and no task
\* was started
C20_OtherInvite ==
    /\ serverLog # << >>
    /\ serverLog[1] = InviteEvent(OtherUser)
    /\ sync_token = Some(1)
    /\ tasks = << >>
    /\ pc = "steady"

----------------------------------------------------------------------------
(* Claims about the bot's own answers (checked under EchoSpec).            *)

\* the message of the call is an answer of the bot
OwnAnswer == Len(serverLog) > 1

\* C21: every message the bot sends is a notice; a call of on_room_message
\* with an answer of the bot, whatever its body, fetches nothing, looks up
\* nothing and sends nothing; so one command is followed by at most one
\* answer of the bot.
C21_NoSelfTrigger ==
    /\ call.phase = "done" =>
          \A i \in DOMAIN call.out.sends : call.out.sends[i].msgtype = "m.notice"
    /\ (call.phase = "done" /\ OwnAnswer) =>
          /\ call.event.msgtype = "m.notice"
          /\ call.out.result = "Ok"
          /\ call.out.sends = << >>
          /\ call.out.fetches = 0
          /\ call.out.lookups = 0
          /\ \A body \in Bodies \cup EchoBodies :
                on_room_message([call.event EXCEPT !.body = body],
                                call.room, call.env).sends = << >>
    /\ Len(serverLog) <= 2

\* C21 witness: the bot's answer "s/c/a/", a command by its body, came back
\* after a message the command applies to, and nothing was sent
C21_Witness ==
    /\ call.phase = "done"
    /\ OwnAnswer
    /\ call.event.body = << "s", "/", "c", "/", "a", "/" >>
    /\ IsSome(detect_command(call.event.body))
    /\ call.env.fetch_ok
    /\ call.env.context_ok
    /\ call.out.sends = << >>

====
